---------------------------- MODULE Spec2Model ----------------------------
(*
  A model of the nd-slice library (src/src/lib.rs, src/src/util.rs):
  the owned array NDBox, the read view NDSlice and the write view NDSliceMut.

  Axes are numbered from 0 as in the source; a length, stride or index
  array [usize; N] is a sequence of N naturals, so axis D is position D + 1.
  A pointer into the array's allocation is the element offset from the
  allocation's start.  An Option<usize> is <<>> (None) or <<x>> (Some(x)).
*)
EXTENDS Integers, Sequences, FiniteSets, TLC

(* ------------------------------ bounds ------------------------------ *)

\* largest axis length of an owned array, and of an axis added to a view
MaxDim == 3
\* largest number of elements of an owned array
MaxSize == 4
\* largest rank of an owned array or of a view
MaxRank == 2
\* largest step of a Bounds
MaxStep == 2
\* longest chain of view-producing calls made on a view of the owned array
\* before the call under observation
MaxOps == 2
\* how many views, references and iterators a program holds at once
MaxHandles == 3
MaxHeldOps == 1
\* the elements of the operands of whole-array operations are 0..MaxVal
MaxVal == 1

\* stand-in for usize::MAX as a coordinate (it is only ever compared)
UsizeMax == 2147483647

(* --------------------------- small helpers --------------------------- *)

RECURSIVE Product(_)
\* Iterator::product over a [usize; N]
Product(s) == IF s = <<>> THEN 1 ELSE Head(s) * Product(Tail(s))

RECURSIVE SumSeq(_)
\* Iterator::sum over a [usize; N]
SumSeq(s) == IF s = <<>> THEN 0 ELSE Head(s) + SumSeq(Tail(s))

\* [0; N]
Zeros(n) == [d \in 1..n |-> 0]

\* Option::unwrap_or
unwrap_or(opt, default) == IF opt = <<>> THEN default ELSE opt[1]

RECURSIVE JoinInts(_)
\* the elements of a list in debug rendering, separated by ", "
JoinInts(s) ==
  IF s = <<>> THEN ""
  ELSE IF Len(s) = 1 THEN ToString(s[1])
  ELSE ToString(s[1]) \o ", " \o JoinInts(Tail(s))

\* {:?} of a [usize; N]
DebugArray(s) == "[" \o JoinInts(s) \o "]"

\* {:?} of Len<N> (derived Debug of a tuple struct)
DebugLen(len) == "Len(" \o DebugArray(len) \o ")"

\* {:?} of Index<N> (derived Debug of a tuple struct)
DebugIndex(index) == "Index(" \o DebugArray(index) \o ")"

\* {:?} of a Range<usize>
DebugRange(start, end) == ToString(start) \o ".." \o ToString(end)

(* ------------------------------ util.rs ------------------------------ *)

\* insert::<N, I>(input, value)
insert(input, I, value) ==
  [k \in 1..(Len(input) + 1) |->
     IF k <= I THEN input[k] ELSE IF k = I + 1 THEN value ELSE input[k - 1]]

\* remove::<N, I> copying the tail from position I instead of I + 1
remove_tail_from_I(input, I) ==
  [k \in 1..(Len(input) - 1) |-> input[k]]

\* remove::<N, I>(input)
remove(input, I) ==
  [k \in 1..(Len(input) - 1) |-> IF k <= I THEN input[k] ELSE input[k + 1]]

(* --------------------------- geometry types --------------------------- *)

\* Len::size
size(len) == Product(len)

RECURSIVE default_stride_loop(_, _, _, _)
\* the loop of Len::default_stride, walking the axes from the last to the first
default_stride_loop(len, d, next_stride, stride) ==
  IF d = 0 THEN stride
  ELSE default_stride_loop(len, d - 1, next_stride * len[d],
                           [stride EXCEPT ![d] = next_stride])

\* Len::default_stride
default_stride(len) == default_stride_loop(len, Len(len), 1, Zeros(Len(len)))

\* Bounds::all
BoundsAll == [start |-> <<>>, end |-> <<>>, step |-> 1]
\* Bounds::from
BoundsFrom(b, start) == [start |-> <<start>>, end |-> b.end, step |-> b.step]
\* Bounds::to
BoundsTo(b, end) == [start |-> b.start, end |-> <<end>>, step |-> b.step]
\* Bounds::step
BoundsStep(b, step) == [start |-> b.start, end |-> b.end, step |-> step]

(* --------------------------- IndexIterator --------------------------- *)

RECURSIVE index_advance_first_axis_fastest(_, _, _)
\* IndexIterator::next walking the axes in the wrong direction
index_advance_first_axis_fastest(len, index, d) ==
  IF d = 0 THEN index
  ELSE LET e == Len(len) + 1 - d
       IN IF index[e] + 1 < len[e] THEN [index EXCEPT ![e] = index[e] + 1]
          ELSE index_advance_first_axis_fastest(len, [index EXCEPT ![e] = 0],
                                                d - 1)

RECURSIVE index_advance(_, _, _)
\* the loop of IndexIterator::next: increment the last axis, carry leftward
index_advance(len, index, d) ==
  IF d = 0 THEN index
  ELSE IF index[d] + 1 < len[d] THEN [index EXCEPT ![d] = index[d] + 1]
  ELSE index_advance(len, [index EXCEPT ![d] = 0], d - 1)

\* IndexIterator::next yielding the index it advanced to
IndexIteratorNext_yields_new(len, index) ==
  [some |-> TRUE, item |-> index_advance(len, index, Len(len)),
   index |-> index_advance(len, index, Len(len))]

\* IndexIterator::next: Some(old_index.0) on every call (some, item), and
\* the iterator's new position
IndexIteratorNext(len, index) ==
  [some |-> TRUE, item |-> index,
   index |-> index_advance(len, index, Len(len))]

(* ------------------------------ NDSlice ------------------------------ *)

\* an NDSlice / NDSliceMut value
View(data, len, stride, mut) ==
  [data |-> data, len |-> len, stride |-> stride, mut |-> mut]

\* placeholder where an operation produced no view
NoView == [data |-> 0 - 1, len |-> <<>>, stride |-> <<>>, mut |-> FALSE]

\* a panic with the given message
Panic(msg) == [ok |-> FALSE, msg |-> msg, view |-> NoView]
\* normal return of a view
Return(v) == [ok |-> TRUE, msg |-> "", view |-> v]

\* NDSlice::location
location(self, index) ==
  self.data + SumSeq([d \in 1..Len(index) |-> index[d] * self.stride[d]])

\* NDSlice::check_index comparing with <= instead of <
check_index_inclusive(self, index) ==
  \A d \in 1..Len(index) : index[d] <= self.len[d]

\* NDSlice::check_index
check_index(self, index) ==
  \A d \in 1..Len(index) : index[d] < self.len[d]

\* NDSlice::get: Some(pointer) or None
get(self, index) ==
  IF ~check_index(self, index) THEN <<>> ELSE <<location(self, index)>>

\* NDSlice::index: the pointer, or the panic
index(self, idx) ==
  IF ~check_index(self, idx)
  THEN [ok |-> FALSE, ptr |-> 0 - 1,
        msg |-> DebugIndex(idx) \o " out of bounds for " \o DebugLen(self.len)]
  ELSE [ok |-> TRUE, ptr |-> location(self, idx), msg |-> ""]

\* NDSlice::extract::<D> asserting dimension_index <= dimension_len
extract_assert_inclusive(self, D, dimension_index) ==
  LET dimension_len == self.len[D + 1]
      idx == [Zeros(Len(self.len)) EXCEPT ![D + 1] = dimension_index]
  IN IF ~(dimension_index <= dimension_len)
     THEN Panic("index " \o ToString(dimension_index)
                \o " out of bounds for dimension of len "
                \o ToString(dimension_len))
     ELSE Return(View(location(self, idx), remove(self.len, D),
                      remove(self.stride, D), self.mut))

\* NDSlice::extract::<D>
extract(self, D, dimension_index) ==
  LET dimension_len == self.len[D + 1]
      idx == [Zeros(Len(self.len)) EXCEPT ![D + 1] = dimension_index]
  IN IF ~(dimension_index < dimension_len)
     THEN Panic("index " \o ToString(dimension_index)
                \o " out of bounds for dimension of len "
                \o ToString(dimension_len))
     ELSE Return(View(location(self, idx), remove(self.len, D),
                      remove(self.stride, D), self.mut))

\* NDSlice::add_dimension::<D> giving the new axis a stride of 1
add_dimension_unit_stride(self, D, dimension_len) ==
  View(self.data, insert(self.len, D, dimension_len),
       insert(self.stride, D, 1), self.mut)

\* NDSlice::add_dimension::<D>
add_dimension(self, D, dimension_len) ==
  View(self.data, insert(self.len, D, dimension_len),
       insert(self.stride, D, 0), self.mut)

\* Range<usize>::step_by(step).len() rounding down
step_by_len_rounding_down(start, end, step) == (end - start) \div step

\* Range<usize>::step_by(step).len(): how many of start, start + step, ...
\* lie before end
step_by_len(start, end, step) ==
  Cardinality({k \in start..(end - 1) : (k - start) % step = 0})

\* the closure of NDSlice::slice with the end of the range not checked
\* against the axis length
slice_dimension_end_unchecked(dimension_bounds, dimension_len, dimension_stride) ==
  LET dimension_start == unwrap_or(dimension_bounds.start, 0)
      dimension_end == unwrap_or(dimension_bounds.end, dimension_len)
  IN IF ~(dimension_start <= dimension_end)
     THEN [ok |-> FALSE, start |-> 0, len |-> 0, stride |-> 0,
           msg |-> "range " \o DebugRange(dimension_start, dimension_end)
                   \o " out of bounds for dimension of len "
                   \o ToString(dimension_len)]
     ELSE IF dimension_bounds.step = 0
     THEN [ok |-> FALSE, start |-> 0, len |-> 0, stride |-> 0,
           msg |-> "assertion failed: step != 0"]
     ELSE [ok |-> TRUE, start |-> dimension_start,
           len |-> Cardinality({k \in dimension_start..(dimension_end - 1) :
                                  (k - dimension_start) % dimension_bounds.step = 0}),
           stride |-> dimension_stride * dimension_bounds.step,
           msg |-> ""]

\* the closure of NDSlice::slice asserting only dimension_end <= dimension_len
slice_dimension_start_unchecked(dimension_bounds, dimension_len, dimension_stride) ==
  LET dimension_start == unwrap_or(dimension_bounds.start, 0)
      dimension_end == unwrap_or(dimension_bounds.end, dimension_len)
  IN IF ~(dimension_end <= dimension_len)
     THEN [ok |-> FALSE, start |-> 0, len |-> 0, stride |-> 0,
           msg |-> "range " \o DebugRange(dimension_start, dimension_end)
                   \o " out of bounds for dimension of len "
                   \o ToString(dimension_len)]
     ELSE IF dimension_bounds.step = 0
     THEN [ok |-> FALSE, start |-> 0, len |-> 0, stride |-> 0,
           msg |-> "assertion failed: step != 0"]
     ELSE [ok |-> TRUE, start |-> dimension_start,
           len |-> step_by_len(dimension_start, dimension_end,
                               dimension_bounds.step),
           stride |-> dimension_stride * dimension_bounds.step,
           msg |-> ""]

\* the closure of NDSlice::slice for one axis:
\* (dimension_start, dimension_len, dimension_stride), or the panic
slice_dimension(dimension_bounds, dimension_len, dimension_stride) ==
  LET dimension_start == unwrap_or(dimension_bounds.start, 0)
      dimension_end == unwrap_or(dimension_bounds.end, dimension_len)
  IN IF ~(dimension_start <= dimension_end /\ dimension_end <= dimension_len)
     THEN [ok |-> FALSE, start |-> 0, len |-> 0, stride |-> 0,
           msg |-> "range " \o DebugRange(dimension_start, dimension_end)
                   \o " out of bounds for dimension of len "
                   \o ToString(dimension_len)]
     ELSE IF dimension_bounds.step = 0
     THEN [ok |-> FALSE, start |-> 0, len |-> 0, stride |-> 0,
           msg |-> "assertion failed: step != 0"]
     ELSE [ok |-> TRUE, start |-> dimension_start,
           len |-> step_by_len(dimension_start, dimension_end,
                               dimension_bounds.step),
           stride |-> dimension_stride * dimension_bounds.step,
           msg |-> ""]

\* NDSlice::slice reporting the panic of the last failing axis
slice_last_panic_wins(self, bounds) ==
  LET N == Len(self.len)
      dimensions == [d \in 1..N |->
                       slice_dimension(bounds[d], self.len[d], self.stride[d])]
      failed == {d \in 1..N : ~dimensions[d].ok}
      final == CHOOSE d \in failed : \A e \in failed : d >= e
      idx == [d \in 1..N |-> dimensions[d].start]
  IN IF failed # {} THEN Panic(dimensions[final].msg)
     ELSE Return(View(location(self, idx),
                      [d \in 1..N |-> dimensions[d].len],
                      [d \in 1..N |-> dimensions[d].stride], self.mut))

\* NDSlice::slice: the axes are mapped in order, the first panic wins
slice(self, bounds) ==
  LET N == Len(self.len)
      dimensions == [d \in 1..N |->
                       slice_dimension(bounds[d], self.len[d], self.stride[d])]
      failed == {d \in 1..N : ~dimensions[d].ok}
      first == CHOOSE d \in failed : \A e \in failed : d <= e
      idx == [d \in 1..N |-> dimensions[d].start]
  IN IF failed # {} THEN Panic(dimensions[first].msg)
     ELSE Return(View(location(self, idx),
                      [d \in 1..N |-> dimensions[d].len],
                      [d \in 1..N |-> dimensions[d].stride], self.mut))

\* <[usize; N]>::reverse
reverse(s) == [k \in 1..Len(s) |-> s[Len(s) + 1 - k]]

\* NDSlice::transpose reversing len only
transpose_len_only(self) ==
  View(self.data, reverse(self.len), self.stride, self.mut)

\* NDSlice::transpose
transpose(self) ==
  View(self.data, reverse(self.len), reverse(self.stride), self.mut)

RECURSIVE take(_, _, _)
\* Take<IndexIterator>: the items next() yields until it returns None, from
\* an IndexIterator whose index is from, with n items still to let through
take(len, from, n) ==
  IF n = 0 THEN <<>>
  ELSE LET r == IndexIteratorNext(len, from)
       IN <<r.item>> \o take(len, r.index, n - 1)

\* NDSlice::indices letting one item too many through
indices_take_one_more(self) ==
  take(self.len, Zeros(Len(self.len)), size(self.len) + 1)

\* NDSlice::indices, run to its end
indices(self) == take(self.len, Zeros(Len(self.len)), size(self.len))

\* NDSlice::iter letting the IndexIterator's first item through even when
\* size(len) is 0
iter_view_first_item_always(self) ==
  LET n == IF size(self.len) = 0 THEN 1 ELSE size(self.len)
      ind == take(self.len, Zeros(Len(self.len)), n)
  IN [k \in 1..Len(ind) |-> [at |-> ind[k], value |-> index(self, ind[k])]]

\* NDSlice::iter / NDSliceMut::iter_mut, run to its end: each index (at) with
\* the outcome of self.index(index) (value)
iter_view(self) ==
  LET ind == indices(self)
  IN [k \in 1..Len(ind) |-> [at |-> ind[k], value |-> index(self, ind[k])]]

(* ---------------------------- NDSliceMut ---------------------------- *)

\* NDSliceMut::as_slice: the read view with the same data, len and stride
as_slice(self) == View(self.data, self.len, self.stride, FALSE)

\* NDSliceMut { data, len, stride, phantom } built from what a method of
\* the read view returned; a panic of that method passes through
rewrap_mut(r) ==
  IF r.ok THEN Return(View(r.view.data, r.view.len, r.view.stride, TRUE))
  ELSE r

\* NDSliceMut::extract_mut::<D> keeping the receiver's base pointer
extract_mut_keeps_base(self, D, dimension_index) ==
  LET r == extract(as_slice(self), D, dimension_index)
  IN IF r.ok THEN Return(View(self.data, r.view.len, r.view.stride, TRUE))
     ELSE r

\* NDSliceMut::extract_mut::<D>
extract_mut(self, D, dimension_index) ==
  rewrap_mut(extract(as_slice(self), D, dimension_index))

\* NDSliceMut::add_dimension_mut::<D>: the new axis always has length 1
add_dimension_mut(self, D) ==
  rewrap_mut(Return(add_dimension(as_slice(self), D, 1)))

\* NDSliceMut::slice_mut
slice_mut(self, bounds) == rewrap_mut(slice(as_slice(self), bounds))

(* ------------------------------- NDBox ------------------------------- *)

\* the allocation: how many elements were allocated (cap), how many NDBox
\* values will still run their destructor on it (ndbox), how many Box<[T]> /
\* Vec<T> values hold it (boxed) and with which slice length (boxlen), how
\* often it has been released (released) and with which length (freed),
\* whether its elements are still typed MaybeUninit<T> (uninit), and the
\* slots whose element has had its destructor run (dropped)
Alloc(cap, ndbox, boxed, boxlen, released, freed) ==
  [cap |-> cap, ndbox |-> ndbox, boxed |-> boxed, boxlen |-> boxlen,
   released |-> released, freed |-> freed, uninit |-> FALSE, dropped |-> {}]

\* Box::new_uninit_slice(n): the allocation is held by a Box<[MaybeUninit<T>]>
new_uninit_slice(n) == [Alloc(n, 0, 1, n, 0, 0) EXCEPT !.uninit = TRUE]

\* Box<[MaybeUninit<T>]>::assume_init: the same allocation as a Box<[T]>
assume_init(a) == [a EXCEPT !.uninit = FALSE]

\* NDBox::from_slice_unchecked: Box::leak gives the allocation to the NDBox
from_slice_unchecked(a) ==
  [a EXCEPT !.boxed = @ - 1, !.ndbox = @ + 1]

\* NDBox::to_box without the ManuallyDrop: the NDBox's destructor still runs
to_box_destructor_runs(a, len) ==
  [a EXCEPT !.boxed = @ + 1, !.boxlen = size(len)]

\* NDBox::to_box: ManuallyDrop suppresses the NDBox's destructor and
\* Box::from_raw rebuilds a Box<[T]> of len.size() elements
to_box(a, len) ==
  [a EXCEPT !.ndbox = @ - 1, !.boxed = @ + 1, !.boxlen = size(len)]

\* dropping a Box<[T]>, Vec<T> or vec::IntoIter<T> runs the destructor of
\* each of its elements and releases the allocation; dropping a
\* Box<[MaybeUninit<T>]> only releases the allocation
drop_box(a) ==
  [a EXCEPT !.boxed = @ - 1, !.released = @ + 1, !.freed = a.boxlen,
            !.dropped = IF a.uninit THEN {} ELSE 1..a.boxlen]

\* unwinding out of new_with with the written elements dropped first
unwind_new_with_drops_written(a, written) ==
  [drop_box(a) EXCEPT !.dropped = 1..written]

\* a panic of init unwinds out of new_with after `written` elements were
\* written: the only local with a destructor is data, a Box<[MaybeUninit<T>]>
unwind_new_with(a, written) == drop_box(a)

\* Drop for NDBox: a copy of the fields is turned into a Box, which is dropped
\* at the end of the statement; the NDBox itself is gone afterwards
drop_ndbox(a, len) ==
  LET copy == [a EXCEPT !.ndbox = @ + 1]
      gone == drop_box(to_box(copy, len))
  IN [gone EXCEPT !.ndbox = @ - 1]

RECURSIVE iter_owned_from(_, _, _)
\* Zip<IndexIterator, vec::IntoIter<T>>: the items next() yields until it
\* returns None, the IndexIterator being at `from` and the elements m left;
\* it ends when the elements run out
iter_owned_from(len, from, m) ==
  IF m = <<>> THEN <<>>
  ELSE LET r == IndexIteratorNext(len, from)
       IN <<[at |-> r.item, value |-> Head(m)]>>
            \o iter_owned_from(len, r.index, Tail(m))

\* NDBox::iter_owned, run to its end
iter_owned(len, m) == iter_owned_from(len, Zeros(Len(len)), m)

\* the value the initializer passed to new_with returns for a coordinate:
\* an injective choice, so that a value identifies the call that produced it
init(idx) == idx

\* a slot of the allocation that has not been written
Uninit == <<0 - 1>>

\* the value a program stores through a write view: none that init returns
Written == <<0 - 2>>

\* NDBox::as_slice / NDBox::as_mut: the view of the whole array
as_view(len, mut) == View(0, len, default_stride(len), mut)

(* ------------------------------ inputs ------------------------------ *)

\* [usize; n] with every entry in S
Arrays(n, S) == [1..n -> S]

\* the length vectors of the owned arrays
Lens ==
  {len \in UNION {Arrays(n, 0..MaxDim) : n \in 0..MaxRank} :
     size(len) <= MaxSize}

\* the coordinates tried on a view of rank n
Coords(n) == Arrays(n, (0..MaxDim) \cup {UsizeMax})

\* the Option<usize> values tried as start and end on an axis of length n:
\* None, every position of the axis, its end and one past its end
OptIndex(n) == {<<>>} \cup {<<k>> : k \in 0..(n + 1)}

\* the Bounds values tried on an axis of length n
BoundsSet(n) == [start : OptIndex(n), end : OptIndex(n), step : 0..MaxStep]

RECURSIVE BoundsArrays(_)
\* the [Bounds; N] values tried on a view of length vector len
BoundsArrays(len) ==
  IF len = <<>> THEN {<<>>}
  ELSE {<<b>> \o rest : b \in BoundsSet(Head(len)),
                        rest \in BoundsArrays(Tail(len))}

(* ------------------------------- state ------------------------------- *)

VARIABLES
  pc,      \* "new_with", "panicked" (init panicked in new_with), "live",
           \* "written" (stored to through a write view),
           \* "iter" (consumed into an iterator), "done"
  len0,    \* the owned array's len
  iter,    \* new_with: the IndexIterator's index
  slot,    \* new_with: how many slots the slice iterator has handed out
  calls,   \* new_with: the coordinates the initializer was called with
  mem,     \* the allocation's slots
  wcount,  \* how often each slot has been written
  alloc,   \* who holds the allocation
  view,    \* the view being worked with, NoView if none
  depth,   \* how many view-producing calls led from the array to the view
  last,    \* the call just made on the view and its outcome, NoCall if none
  handles, \* the views, element references and iterators a program holds
           \* at once on the array, by slot
  lhs,     \* an operation on whole arrays: its receiver or left operand
  rhs,     \* ... its argument or right operand
  res      \* ... its outcome, NoRes before it ran

vars ==
  <<pc, len0, iter, slot, calls, mem, wcount, alloc, view, depth, last, handles,
    lhs, rhs, res>>

opVars == <<lhs, rhs, res>>

boxVars == <<len0, iter, slot, calls, mem, wcount>>

\* a call on the view and its outcome: the receiver, the arguments, whether
\* it returned, the panic message if not, and the view or pointer returned
Call(name, pre, D, n, bounds, idx, ok, msg, v, ptr) ==
  [op |-> name, pre |-> pre, D |-> D, n |-> n, bounds |-> bounds,
   idx |-> idx, ok |-> ok, msg |-> msg, view |-> v, ptr |-> ptr,
   items |-> <<>>]

\* something a program holds on the array: an NDSliceMut ("slice_mut"), an
\* NDSlice ("slice"), a &mut T ("ref_mut"), a &T ("ref") or the iterator
\* made by iter_mut ("iter_mut").  lt is the borrow its lifetime is tied to:
\* 0 for the lifetime 'a of the borrow of the NDBox, h for a borrow of the
\* handle in slot h.  An iterator also has its IndexIterator's index (it)
\* and the number of items Take will still let through (left).
Handle(kind, v, ptr, lt, ops, it, left) ==
  [kind |-> kind, view |-> v, ptr |-> ptr, lt |-> lt, ops |-> ops,
   it |-> it, left |-> left]

\* an empty slot
NoHandle == Handle("none", NoView, 0 - 1, 0, 0, <<>>, 0)

\* an operand of an operation on whole arrays: an NDBox passed by value
\* (owned, view is then the view of the whole array) or an NDSlice /
\* &mut NDSliceMut (view), with the slots of the array behind it (mem)
Operand(owned, m, v) == [owned |-> owned, mem |-> m, view |-> v]

\* no operand
NoOperand == Operand(FALSE, <<>>, NoView)

\* the outcome of an operation on whole arrays: whether it returned, the
\* panic message if not, the len and the slots of the NDBox it made, the
\* receiver's slots before it ran, the boolean it returned, and how many
\* items it took from its iterator or cells it computed
Res(name, ok, msg, len, data, before, flag, n) ==
  [op |-> name, ok |-> ok, msg |-> msg, len |-> len, data |-> data,
   before |-> before, flag |-> flag, n |-> n]

\* no operation ran yet
NoRes == Res("none", TRUE, "", <<>>, <<>>, <<>>, FALSE, 0)

\* no call made yet
NoCall == Call("none", NoView, 0, 0, <<>>, <<>>, TRUE, "", NoView, 0 - 1)

\* a pointer that was not produced
NoPtr == 0 - 1

Init ==
  /\ pc = "new_with"
  /\ len0 \in Lens
  /\ iter = Zeros(Len(len0))
  /\ slot = 0
  /\ calls = <<>>
  /\ mem = [k \in 1..size(len0) |-> Uninit]
  /\ wcount = [k \in 1..size(len0) |-> 0]
  /\ alloc = new_uninit_slice(size(len0))
  /\ view = NoView
  /\ depth = 0
  /\ last = NoCall
  /\ handles = [h \in 1..MaxHandles |-> NoHandle]
  /\ lhs = NoOperand
  /\ rhs = NoOperand
  /\ res = NoRes

(* ------------------------------ actions ------------------------------ *)

\* NDBox::new_with, one turn of its loop: Zip::next asks the IndexIterator
\* first and the slots second, and the loop ends when the slots run out
NewWithStep ==
  /\ pc = "new_with"
  /\ LET r == IndexIteratorNext(len0, iter)
     IN /\ iter' = r.index
        /\ IF slot < size(len0)
           THEN /\ calls' = Append(calls, r.item)
                /\ mem' = [mem EXCEPT ![slot + 1] = init(r.item)]
                /\ wcount' = [wcount EXCEPT ![slot + 1] = @ + 1]
                /\ slot' = slot + 1
                /\ UNCHANGED <<pc, alloc>>
           ELSE /\ pc' = "live"
                /\ alloc' = from_slice_unchecked(assume_init(alloc))
                /\ UNCHANGED <<calls, mem, wcount, slot>>
  /\ UNCHANGED <<len0, view, depth, last, handles, opVars>>

\* NDBox::new_with when init panics at the coordinate it is called with: the
\* element is not written, no NDBox is made, and the program is followed no
\* further
NewWithPanic ==
  /\ pc = "new_with"
  /\ slot < size(len0)
  /\ LET r == IndexIteratorNext(len0, iter)
     IN /\ iter' = r.index
        /\ calls' = Append(calls, r.item)
  /\ alloc' = unwind_new_with(alloc, slot)
  /\ pc' = "panicked"
  /\ UNCHANGED <<len0, slot, mem, wcount, view, depth, last, handles, opVars>>

\* the program is between two calls on a live view
Ready == pc = "live" /\ view # NoView /\ last = NoCall

\* NDBox::as_slice
AsSlice ==
  /\ pc = "live" /\ view = NoView
  /\ view' = as_view(len0, FALSE)
  /\ depth' = 0
  /\ UNCHANGED <<pc, boxVars, alloc, last, handles, opVars>>

\* NDBox::as_mut
AsMut ==
  /\ pc = "live" /\ view = NoView
  /\ view' = as_view(len0, TRUE)
  /\ depth' = 0
  /\ UNCHANGED <<pc, boxVars, alloc, last, handles, opVars>>

\* the view goes out of scope
EndView ==
  /\ Ready
  /\ view' = NoView
  /\ depth' = 0
  /\ UNCHANGED <<pc, boxVars, alloc, last, handles, opVars>>

\* a call that yields a view returns or panics; the receiver is untouched
ViewCall(name, D, n, bounds, r) ==
  /\ depth < MaxOps
  /\ last' = Call(name, view, D, n, bounds, <<>>, r.ok, r.msg, r.view, NoPtr)
  /\ UNCHANGED <<pc, boxVars, alloc, view, depth, handles, opVars>>

\* the program goes on with what the call returned: the new view if there is
\* one, the receiver after a caught panic or an element access
Continue ==
  /\ pc = "live" /\ last # NoCall
  /\ view' = IF last.ok /\ last.view # NoView THEN last.view ELSE view
  /\ depth' = IF last.ok /\ last.view # NoView THEN depth + 1 ELSE depth
  /\ last' = NoCall
  /\ UNCHANGED <<pc, boxVars, alloc, handles, opVars>>

\* NDSlice::extract / NDSliceMut::extract_mut
Extract ==
  /\ Ready
  /\ \E D \in 0..(Len(view.len) - 1), i \in 0..MaxDim :
       ViewCall("extract", D, i, <<>>,
                IF view.mut THEN extract_mut(view, D, i)
                ELSE extract(view, D, i))

\* add_dimension_mut accepting any length, as add_dimension does
AddDimension_mut_any_len ==
  /\ Ready
  /\ Len(view.len) < MaxRank
  /\ \E D \in 0..Len(view.len), n \in 0..MaxDim :
       ViewCall("add_dimension", D, n, <<>>,
                Return(add_dimension(view, D, n)))

\* NDSlice::add_dimension / NDSliceMut::add_dimension_mut (length 1 only)
AddDimension ==
  /\ Ready
  /\ Len(view.len) < MaxRank
  /\ \E D \in 0..Len(view.len), n \in 0..MaxDim :
       /\ view.mut => n = 1
       /\ ViewCall("add_dimension", D, n, <<>>,
                   IF view.mut THEN add_dimension_mut(view, D)
                   ELSE Return(add_dimension(view, D, n)))

\* NDSlice::slice / NDSliceMut::slice_mut
Slice ==
  /\ Ready
  /\ \E bounds \in BoundsArrays(view.len) :
       ViewCall("slice", 0, 0, bounds,
                IF view.mut THEN slice_mut(view, bounds)
                ELSE slice(view, bounds))

\* NDSlice::transpose; impl NDSliceMut has no method that transposes
Transpose ==
  /\ Ready /\ ~view.mut
  /\ ViewCall("transpose", 0, 0, <<>>, Return(transpose(view)))

\* NDSliceMut::as_slice
MutAsSlice ==
  /\ Ready /\ view.mut
  /\ ViewCall("as_slice", 0, 0, <<>>, Return(as_slice(view)))

\* NDSlice::get / NDSliceMut::get_mut
Get ==
  /\ Ready
  /\ \E idx \in Coords(Len(view.len)) :
       LET r == get(view, idx)
       IN last' = Call("get", view, 0, 0, <<>>, idx, r # <<>>, "", NoView,
                       unwrap_or(r, NoPtr))
  /\ UNCHANGED <<pc, boxVars, alloc, view, depth, handles, opVars>>

\* NDSlice::index / NDSliceMut::index_mut
Index ==
  /\ Ready
  /\ \E idx \in Coords(Len(view.len)) :
       LET r == index(view, idx)
       IN last' = Call("index", view, 0, 0, <<>>, idx, r.ok, r.msg, NoView,
                       r.ptr)
  /\ UNCHANGED <<pc, boxVars, alloc, view, depth, handles, opVars>>

\* NDSlice::indices, consumed to its end
Indices ==
  /\ Ready
  /\ last' = [Call("indices", view, 0, 0, <<>>, <<>>, TRUE, "", NoView, NoPtr)
               EXCEPT !.items = indices(view)]
  /\ UNCHANGED <<pc, boxVars, alloc, view, depth, handles, opVars>>

\* NDSlice::iter, consumed to its end
Iter ==
  /\ Ready /\ ~view.mut
  /\ last' = [Call("iter", view, 0, 0, <<>>, <<>>, TRUE, "", NoView, NoPtr)
               EXCEPT !.items = iter_view(view)]
  /\ UNCHANGED <<pc, boxVars, alloc, view, depth, handles, opVars>>

\* NDSliceMut::iter_mut, consumed to its end
IterMut ==
  /\ Ready /\ view.mut
  /\ last' = [Call("iter_mut", view, 0, 0, <<>>, <<>>, TRUE, "", NoView, NoPtr)
               EXCEPT !.items = iter_view(view)]
  /\ UNCHANGED <<pc, boxVars, alloc, view, depth, handles, opVars>>

\* IndexMut for NDSliceMut, a store through the reference it returns:
\* view[idx] = value.  The program is followed no further after the store.
Write ==
  /\ Ready /\ view.mut
  /\ \E idx \in Coords(Len(view.len)) :
       LET r == index(view, idx)
       IN /\ r.ok
          /\ mem' = [mem EXCEPT ![r.ptr + 1] = Written]
          /\ last' = Call("index_mut", view, 0, 0, <<>>, idx, TRUE, "", NoView,
                          r.ptr)
  /\ pc' = "written"
  /\ UNCHANGED <<len0, iter, slot, calls, wcount, alloc, view, depth, handles, opVars>>

\* the NDBox goes out of scope: Drop for NDBox
DropBox ==
  /\ pc = "live" /\ view = NoView
  /\ alloc' = drop_ndbox(alloc, len0)
  /\ pc' = "done"
  /\ UNCHANGED <<boxVars, view, depth, last, handles, opVars>>

\* IntoIterator for NDBox: into_iter, and NDBox::iter_owned; the allocation
\* is now held by the vec::IntoIter.  The call records what iter_owned
\* yields when run to its end; into_iter yields the values alone.
IntoIter ==
  /\ pc = "live" /\ view = NoView
  /\ alloc' = to_box(alloc, len0)
  /\ pc' = "iter"
  /\ last' = [Call("iter_owned", NoView, 0, 0, <<>>, <<>>, TRUE, "", NoView,
                    NoPtr)
               EXCEPT !.items = iter_owned(len0, mem)]
  /\ UNCHANGED <<boxVars, view, depth, handles, opVars>>

\* the iterator made by into_iter / iter_owned goes out of scope
DropIter ==
  /\ pc = "iter"
  /\ alloc' = drop_box(alloc)
  /\ pc' = "done"
  /\ UNCHANGED <<boxVars, view, depth, last, handles, opVars>>

Next ==
  \/ NewWithStep
  \/ NewWithPanic
  \/ AsSlice
  \/ AsMut
  \/ EndView
  \/ Continue
  \/ Extract
  \/ AddDimension
  \/ Slice
  \/ Transpose
  \/ MutAsSlice
  \/ Get
  \/ Index
  \/ Indices
  \/ Iter
  \/ IterMut
  \/ Write
  \/ DropBox
  \/ IntoIter
  \/ DropIter

Spec == Init /\ [][Next]_vars

(* --------------- several handles on one array at once --------------- *)

\* the slot holds something
Live(h) == handles[h].kind # "none"

\* the handle in slot h is borrowed by a live handle, so it cannot be used
Borrowed(h) == \E k \in 1..MaxHandles : Live(k) /\ handles[k].lt = h

\* the handle in slot h is live and the program can use it
Usable(h) == Live(h) /\ ~Borrowed(h)

\* the handle in slot h is an NDSliceMut the program can call a method on
UsableMut(h) == Usable(h) /\ handles[h].kind = "slice_mut"

\* the program keeps what a call returned: it goes to the first empty slot
Keep(hd) ==
  /\ \E f \in 1..MaxHandles : ~Live(f)
  /\ LET f == CHOOSE f \in 1..MaxHandles :
                /\ ~Live(f)
                /\ \A g \in 1..MaxHandles : ~Live(g) => f <= g
     IN handles' = [handles EXCEPT ![f] = hd]
  /\ UNCHANGED <<pc, boxVars, alloc, view, depth, last, opVars>>

\* the Bounds values tried on one axis of a write view
MutBoundsSet ==
  {BoundsAll, BoundsFrom(BoundsAll, 1), BoundsTo(BoundsAll, 1),
   BoundsStep(BoundsAll, MaxStep)}

\* NDBox::as_mut, when nothing else borrows the array
HoldAsMut ==
  /\ pc = "live"
  /\ \A h \in 1..MaxHandles : ~Live(h)
  /\ Keep(Handle("slice_mut", as_view(len0, TRUE), NoPtr, 0, 0, <<>>, 0))

\* NDSliceMut::as_slice(&self) -> NDSlice<'a, T, N>
HoldAsSlice ==
  \E h \in 1..MaxHandles :
    /\ UsableMut(h)
    /\ Keep(Handle("slice", [handles[h].view EXCEPT !.mut = FALSE], NoPtr,
                   handles[h].lt, handles[h].ops, <<>>, 0))

\* NDSliceMut::get_mut(&mut self, index) -> Option<&'a mut T>, when Some
HoldGetMut ==
  \E h \in 1..MaxHandles :
    /\ UsableMut(h)
    /\ \E idx \in Arrays(Len(handles[h].view.len), 0..MaxDim) :
         LET r == get([handles[h].view EXCEPT !.mut = FALSE], idx)
         IN /\ r # <<>>
            /\ Keep(Handle("ref_mut", NoView, r[1], handles[h].lt,
                           handles[h].ops, <<>>, 0))

\* NDSliceMut::index_mut(&mut self, index) -> &'a mut T, when it returns
HoldIndexMut ==
  \E h \in 1..MaxHandles :
    /\ UsableMut(h)
    /\ \E idx \in Arrays(Len(handles[h].view.len), 0..MaxDim) :
         LET r == index([handles[h].view EXCEPT !.mut = FALSE], idx)
         IN /\ r.ok
            /\ Keep(Handle("ref_mut", NoView, r.ptr, handles[h].lt,
                           handles[h].ops, <<>>, 0))

\* NDSlice::get(self, index) -> Option<&'a T> on a read view, when Some
HoldGet ==
  \E h \in 1..MaxHandles :
    /\ Usable(h) /\ handles[h].kind = "slice"
    /\ \E idx \in Arrays(Len(handles[h].view.len), 0..MaxDim) :
         LET r == get(handles[h].view, idx)
         IN /\ r # <<>>
            /\ Keep(Handle("ref", NoView, r[1], handles[h].lt,
                           handles[h].ops, <<>>, 0))

\* a write view made from the read view r by one of the _mut methods
KeepMut(h, r) ==
  /\ r.ok
  /\ handles[h].ops < MaxHeldOps
  /\ Keep(Handle("slice_mut", [r.view EXCEPT !.mut = TRUE], NoPtr,
                 handles[h].lt, handles[h].ops + 1, <<>>, 0))

\* NDSliceMut::extract_mut(&mut self, i) -> NDSliceMut<'a, T, {N - 1}>
HoldExtractMut ==
  \E h \in 1..MaxHandles :
    /\ UsableMut(h)
    /\ \E D \in 0..(Len(handles[h].view.len) - 1), i \in 0..MaxDim :
         KeepMut(h, extract([handles[h].view EXCEPT !.mut = FALSE], D, i))

\* NDSliceMut::slice_mut(&mut self, bounds) -> NDSliceMut<'a, T, N>
HoldSliceMut ==
  \E h \in 1..MaxHandles :
    /\ UsableMut(h)
    /\ \E bounds \in Arrays(Len(handles[h].view.len), MutBoundsSet) :
         KeepMut(h, slice([handles[h].view EXCEPT !.mut = FALSE], bounds))

\* NDSliceMut::add_dimension_mut(&mut self) -> NDSliceMut<'a, T, {N + 1}>
HoldAddDimensionMut ==
  \E h \in 1..MaxHandles :
    /\ UsableMut(h)
    /\ Len(handles[h].view.len) < MaxRank
    /\ \E D \in 0..Len(handles[h].view.len) :
         KeepMut(h, Return(add_dimension([handles[h].view EXCEPT !.mut = FALSE],
                                         D, 1)))

\* NDSliceMut::iter_mut(&mut self) -> impl Iterator + '_: the iterator
\* borrows the write view; it is IndexIterator::new(len).take(len.size())
\* mapped through index and as_mut
HoldIterMut ==
  \E h \in 1..MaxHandles :
    /\ UsableMut(h)
    /\ Keep(Handle("iter_mut", [handles[h].view EXCEPT !.mut = FALSE], NoPtr,
                   h, handles[h].ops, Zeros(Len(handles[h].view.len)),
                   size(handles[h].view.len)))

\* next() on the iterator made by iter_mut, when Take lets an item through:
\* the item's &mut T lives as long as the borrow of the write view
HoldIterMutNext ==
  \E j \in 1..MaxHandles :
    /\ Usable(j) /\ handles[j].kind = "iter_mut"
    /\ handles[j].left # 0
    /\ \E f \in 1..MaxHandles : ~Live(f)
    /\ LET f == CHOOSE f \in 1..MaxHandles :
                  /\ ~Live(f)
                  /\ \A g \in 1..MaxHandles : ~Live(g) => f <= g
           r == IndexIteratorNext(handles[j].view.len, handles[j].it)
           item == index(handles[j].view, r.item)
       IN /\ item.ok
          /\ handles' =
               [handles EXCEPT
                  ![j] = [@ EXCEPT !.it = r.index, !.left = @ - 1],
                  ![f] = Handle("ref_mut", NoView, item.ptr, handles[j].lt,
                                handles[j].ops, <<>>, 0)]
    /\ UNCHANGED <<pc, boxVars, alloc, view, depth, last, opVars>>

\* a handle nothing borrows goes out of scope
Release ==
  \E h \in 1..MaxHandles :
    /\ Usable(h)
    /\ handles' = [handles EXCEPT ![h] = NoHandle]
    /\ UNCHANGED <<pc, boxVars, alloc, view, depth, last, opVars>>

NextAlias ==
  \/ NewWithStep
  \/ HoldAsMut
  \/ HoldAsSlice
  \/ HoldGetMut
  \/ HoldIndexMut
  \/ HoldGet
  \/ HoldExtractMut
  \/ HoldSliceMut
  \/ HoldAddDimensionMut
  \/ HoldIterMut
  \/ HoldIterMutNext
  \/ Release

SpecAlias == Init /\ [][NextAlias]_vars

(* -------------------- operations on whole arrays -------------------- *)

\* NDIntoIterator::len
nd_len(x) == x.view.len

\* IntoIterator::into_iter, run to its end: the values of an NDBox in
\* storage order, or the references (offsets into mem) that iter / iter_mut
\* of a view yield
into_iter(x) ==
  IF x.owned THEN x.mem
  ELSE LET it == iter_view(x.view)
       IN [k \in 1..Len(it) |-> it[k].value.ptr]

\* the element an item of into_iter(x) is or refers to
deref(x, item) == IF x.owned THEN item ELSE x.mem[item + 1]

\* iter::zip, run to its end
iter_zip(a, b) ==
  [k \in 1..(IF Len(a) <= Len(b) THEN Len(a) ELSE Len(b)) |-> <<a[k], b[k]>>]

\* NDIntoIterator::zip naming the argument's len first
zip_message_swapped(x, other) ==
  IF nd_len(x) # nd_len(other)
  THEN [ok |-> FALSE, pairs |-> <<>>,
        msg |-> "Cannot operate on NDSlices with " \o DebugLen(nd_len(other))
                \o " and " \o DebugLen(nd_len(x))]
  ELSE [ok |-> TRUE, msg |-> "", pairs |-> iter_zip(into_iter(x), into_iter(other))]

\* NDIntoIterator::zip
zip(x, other) ==
  IF nd_len(x) # nd_len(other)
  THEN [ok |-> FALSE, pairs |-> <<>>,
        msg |-> "Cannot operate on NDSlices with " \o DebugLen(nd_len(x))
                \o " and " \o DebugLen(nd_len(other))]
  ELSE [ok |-> TRUE, msg |-> "", pairs |-> iter_zip(into_iter(x), into_iter(other))]

\* the element operators: Add::add, Sub::sub, Mul::mul
apply(f, a, b) ==
  CASE f = "add" -> a + b
    [] f = "sub" -> a - b
    [] f = "mul" -> a * b

\* NDIntoIterator::zip_map passing each pair to f the other way round
zip_map_pair_swapped(x, other, f) ==
  LET z == zip(x, other)
  IN IF ~z.ok
     THEN Res(f, FALSE, z.msg, <<>>, <<>>, x.mem, FALSE, 0)
     ELSE Res(f, TRUE, "", nd_len(x),
              [k \in 1..Len(z.pairs) |->
                 apply(f, deref(other, z.pairs[k][2]), deref(x, z.pairs[k][1]))],
              x.mem, FALSE, Len(z.pairs))

\* NDIntoIterator::zip_map
zip_map(x, other, f) ==
  LET z == zip(x, other)
  IN IF ~z.ok
     THEN Res(f, FALSE, z.msg, <<>>, <<>>, x.mem, FALSE, 0)
     ELSE Res(f, TRUE, "", nd_len(x),
              [k \in 1..Len(z.pairs) |->
                 apply(f, deref(x, z.pairs[k][1]), deref(other, z.pairs[k][2]))],
              x.mem, FALSE, Len(z.pairs))

RECURSIVE assign_loop(_, _, _, _, _)
\* the for loop of a compound assignment from pair k on: each left item is a
\* &mut T into m
assign_loop(f, m, pairs, other, k) ==
  IF k > Len(pairs) THEN m
  ELSE assign_loop(f,
         [m EXCEPT ![pairs[k][1] + 1] = apply(f, @, deref(other, pairs[k][2]))],
         pairs, other, k + 1)

\* a compound assignment that zips without comparing the lens
op_assign_unchecked(f, x, other) ==
  LET pairs == iter_zip(into_iter(x), into_iter(other))
  IN [ok |-> TRUE, msg |-> "", n |-> Len(pairs),
      mem |-> assign_loop(f, x.mem, pairs, other, 1)]

\* AddAssign::add_assign, SubAssign::sub_assign for NDSliceMut: the slots
\* of the write view's array afterwards
op_assign(f, x, other) ==
  LET z == zip(x, other)
  IN IF ~z.ok THEN [ok |-> FALSE, msg |-> z.msg, n |-> 0, mem |-> x.mem]
     ELSE [ok |-> TRUE, msg |-> "", n |-> Len(z.pairs),
           mem |-> assign_loop(f, x.mem, z.pairs, other, 1)]

\* Iterator::all over the zipped pairs from pair k on: how many pairs it
\* takes, stopping after the first unequal one
all_taken(x, other, pairs, k) ==
  LET unequal == {j \in k..Len(pairs) :
                    deref(x, pairs[j][1]) # deref(other, pairs[j][2])}
  IN IF unequal = {} THEN Len(pairs)
     ELSE CHOOSE j \in unequal : \A i \in unequal : j <= i

\* PartialEq for NDSlice comparing the elements only
eq_elements_only(x, other) ==
  LET pairs == iter_zip(into_iter(x), into_iter(other))
      n == all_taken(x, other, pairs, 1)
  IN Res("eq", TRUE, "", <<>>, <<>>, x.mem,
         \A j \in 1..n : deref(x, pairs[j][1]) = deref(other, pairs[j][2]), n)

\* PartialEq for NDSlice (NDBox and NDSliceMut compare their as_slice())
eq(x, other) ==
  IF nd_len(x) # nd_len(other)
  THEN Res("eq", TRUE, "", <<>>, <<>>, x.mem, FALSE, 0)
  ELSE LET z == zip(x, other)
           n == all_taken(x, other, z.pairs, 1)
       IN IF ~z.ok THEN Res("eq", FALSE, z.msg, <<>>, <<>>, x.mem, FALSE, 0)
          ELSE Res("eq", TRUE, "", <<>>, <<>>, x.mem,
                   \A j \in 1..n :
                     deref(x, z.pairs[j][1]) = deref(other, z.pairs[j][2]),
                   n)

RECURSIVE matrix_cell(_, _, _, _, _, _)
\* the closure matrix_product passes to new_with: the sum of
\* matrix1[index0, inner_index] * matrix2[inner_index, index1] over
\* inner_index in from .. inner_length1 - 1
matrix_cell(matrix1, matrix2, index0, index1, from, inner_length1) ==
  IF from >= inner_length1 THEN 0
  ELSE apply("mul",
             matrix1.mem[index(matrix1.view, <<index0, from>>).ptr + 1],
             matrix2.mem[index(matrix2.view, <<from, index1>>).ptr + 1])
       + matrix_cell(matrix1, matrix2, index0, index1, from + 1, inner_length1)

\* the first panic among the index calls of matrix_product, if any
matrix_index_panics(matrix1, matrix2, cells, inner_length1) ==
  LET reads == {<<k, m, w>> \in (1..Len(cells)) \X (0..(inner_length1 - 1)) \X {1, 2} :
                  ~(IF w = 1
                    THEN index(matrix1.view, <<cells[k][1], m>>).ok
                    ELSE index(matrix2.view, <<m, cells[k][2]>>).ok)}
      before(a, b) ==
        \/ a[1] < b[1]
        \/ a[1] = b[1] /\ a[2] < b[2]
        \/ a[1] = b[1] /\ a[2] = b[2] /\ a[3] <= b[3]
  IN IF reads = {} THEN <<>>
     ELSE LET r == CHOOSE a \in reads : \A b \in reads : before(a, b)
          IN <<IF r[3] = 1
               THEN index(matrix1.view, <<cells[r[1]][1], r[2]>>).msg
               ELSE index(matrix2.view, <<r[2], cells[r[1]][2]>>).msg>>

\* matrix_product body after its assert, summing from inner index `from`
matrix_product_cells(matrix1, matrix2, from) ==
  LET length0 == matrix1.view.len[1]
      inner_length1 == matrix1.view.len[2]
      length1 == matrix2.view.len[2]
      cells == indices(as_view(<<length0, length1>>, FALSE))
      panics == matrix_index_panics(matrix1, matrix2, cells, inner_length1)
  IN IF panics # <<>>
     THEN Res("matrix_product", FALSE, panics[1], <<>>, <<>>, matrix1.mem,
              FALSE, 0)
     ELSE Res("matrix_product", TRUE, "", <<length0, length1>>,
              [k \in 1..Len(cells) |->
                 matrix_cell(matrix1, matrix2, cells[k][1], cells[k][2], from,
                             inner_length1)],
              matrix1.mem, FALSE, Len(cells))

\* the panic of matrix_product's assert
matrix_product_panic(matrix1, matrix2) ==
  Res("matrix_product", FALSE,
      "Cannot multiply matrices of " \o DebugLen(matrix1.view.len) \o " and "
        \o DebugLen(matrix2.view.len),
      <<>>, <<>>, matrix1.mem, FALSE, 0)

\* matrix_product summing over (1..inner_length1)
matrix_product_skip_first(matrix1, matrix2) ==
  IF matrix1.view.len[2] # matrix2.view.len[1]
  THEN matrix_product_panic(matrix1, matrix2)
  ELSE matrix_product_cells(matrix1, matrix2, 1)

\* matrix_product asserting inner_length1 <= inner_length2
matrix_product_assert_le(matrix1, matrix2) ==
  IF ~(matrix1.view.len[2] <= matrix2.view.len[1])
  THEN matrix_product_panic(matrix1, matrix2)
  ELSE matrix_product_cells(matrix1, matrix2, 0)

\* matrix_product
matrix_product(matrix1, matrix2) ==
  IF matrix1.view.len[2] # matrix2.view.len[1]
  THEN matrix_product_panic(matrix1, matrix2)
  ELSE matrix_product_cells(matrix1, matrix2, 0)

\* the [Bounds; N] values that leave all axes but one whole and on that one
\* drop the first position or take every MaxStep-th
OneAxisBounds(N) ==
  {[a \in 1..N |-> IF a = d THEN b ELSE BoundsAll] :
     d \in 1..N,
     b \in {BoundsFrom(BoundsAll, 1), BoundsStep(BoundsAll, MaxStep)}}

\* the views a program makes of an array of length vector len with at most
\* one call after as_slice() (mut = FALSE) or as_mut() (mut = TRUE)
ViewsOf(len, mut) ==
  LET v0 == as_view(len, mut)
      N == Len(len)
  IN {v0}
     \cup (IF mut THEN {} ELSE {transpose(v0)})
     \cup {slice(v0, b).view :
             b \in {b \in OneAxisBounds(N) : slice(v0, b).ok}}
     \cup {extract(v0, dn[1], dn[2]).view :
             dn \in {dn \in (0..(N - 1)) \X (0..MaxDim) : dn[2] < len[dn[1] + 1]}}
     \cup (IF N < MaxRank
           THEN {add_dimension(v0, D, n) :
                   D \in 0..N, n \in (IF mut THEN {1} ELSE 0..MaxStep)}
           ELSE {})

\* the elements of an array of n slots
Mems(n) == [1..n -> 0..MaxVal]

\* the operands of rank r: NDBox values, and read and write views of arrays
Operands(r) ==
  {Operand(TRUE, m[2], as_view(m[1], FALSE)) :
     m \in {m \in Lens \X UNION {Mems(n) : n \in 0..MaxSize} :
              Len(m[1]) = r /\ Len(m[2]) = size(m[1])}}
  \cup
  UNION {{Operand(FALSE, m, v) :
            m \in Mems(size(len)),
            v \in {v \in ViewsOf(len, FALSE) \cup ViewsOf(len, TRUE) :
                     Len(v.len) = r}} :
         len \in Lens}

\* two operands of the same rank, of two arrays; the right one is an NDBox
\* or an NDSlice
InitOps ==
  /\ pc = "ops"
  /\ len0 = <<>>
  /\ iter = <<>>
  /\ slot = 0
  /\ calls = <<>>
  /\ mem = <<>>
  /\ wcount = <<>>
  /\ alloc = Alloc(0, 0, 0, 0, 0, 0)
  /\ view = NoView
  /\ depth = 0
  /\ last = NoCall
  /\ handles = [h \in 1..MaxHandles |-> NoHandle]
  /\ \E r \in 0..MaxRank :
       /\ lhs \in Operands(r)
       /\ rhs \in {o \in Operands(r) : ~o.view.mut}
  /\ res = NoRes

\* the variables an operation on whole arrays leaves alone
idleVars == <<pc, boxVars, alloc, view, depth, last, handles>>

\* NDIntoIterator::zip, the iterator consumed to its end
OpZip ==
  /\ pc = "ops" /\ res = NoRes
  /\ LET z == zip(lhs, rhs)
     IN res' = Res("zip", z.ok, z.msg, <<>>, z.pairs, lhs.mem, FALSE,
                   Len(z.pairs))
  /\ UNCHANGED <<idleVars, lhs, rhs>>

\* Add / Sub for NDBox and NDSlice in their four combinations
OpBinary ==
  /\ pc = "ops" /\ res = NoRes
  /\ ~lhs.view.mut
  /\ \E f \in {"add", "sub"} : res' = zip_map(lhs, rhs, f)
  /\ UNCHANGED <<idleVars, lhs, rhs>>

\* AddAssign / SubAssign for NDSliceMut
OpAssign ==
  /\ pc = "ops" /\ res = NoRes
  /\ lhs.view.mut
  /\ \E f \in {"add", "sub"} :
       LET r == op_assign(f, lhs, rhs)
       IN /\ lhs' = [lhs EXCEPT !.mem = r.mem]
          /\ res' = Res(f \o "_assign", r.ok, r.msg, <<>>, <<>>, lhs.mem, FALSE,
                        r.n)
  /\ UNCHANGED <<idleVars, rhs>>

\* matrix_product of two NDSlices of rank 2
OpMatrixProduct ==
  /\ pc = "ops" /\ res = NoRes
  /\ ~lhs.owned /\ ~lhs.view.mut /\ ~rhs.owned
  /\ Len(lhs.view.len) = 2
  /\ res' = matrix_product(lhs, rhs)
  /\ UNCHANGED <<idleVars, lhs, rhs>>

\* lhs == rhs
OpEq ==
  /\ pc = "ops" /\ res = NoRes
  /\ res' = eq(lhs, rhs)
  /\ UNCHANGED <<idleVars, lhs, rhs>>

NextOps ==
  \/ OpZip
  \/ OpBinary
  \/ OpAssign
  \/ OpMatrixProduct
  \/ OpEq

SpecOps == InitOps /\ [][NextOps]_vars

(* ------------------- the index enumerator on its own ------------------- *)

\* the largest rank of a length vector the enumerator is run on
MaxIterRank == 3

\* how many times over the enumerator is run through size(len) items
MaxRounds == 2

\* the length vectors the enumerator is run on, empty axes included
IterLens == UNION {Arrays(n, 0..MaxDim) : n \in 0..MaxIterRank}

\* IndexIterator::new(len), nothing else in use
InitIter ==
  /\ pc = "enum"
  /\ len0 \in IterLens
  /\ iter = Zeros(Len(len0))
  /\ slot = 0
  /\ calls = <<>>
  /\ mem = <<>>
  /\ wcount = <<>>
  /\ alloc = Alloc(0, 0, 0, 0, 0, 0)
  /\ view = NoView
  /\ depth = 0
  /\ last = NoCall
  /\ handles = [h \in 1..MaxHandles |-> NoHandle]
  /\ lhs = NoOperand
  /\ rhs = NoOperand
  /\ res = NoRes

\* one call of next() on the IndexIterator: calls collects the items; the
\* caller stops asking after None
IterNext ==
  /\ pc = "enum"
  /\ Len(calls) < MaxRounds * size(len0) + 2
  /\ LET r == IndexIteratorNext(len0, iter)
     IN /\ iter' = r.index
        /\ calls' = IF r.some THEN Append(calls, r.item) ELSE calls
        /\ pc' = IF r.some THEN "enum" ELSE "enum_end"
  /\ UNCHANGED <<len0, slot, mem, wcount, alloc, view, depth, last, handles,
                 opVars>>

NextIter == IterNext

SpecIter == InitIter /\ [][NextIter]_vars

(* ------------------------------ claims ------------------------------ *)

\* the in-range coordinates of a length vector: c[d] < len[d] on every axis
InRange(len) ==
  {c \in Arrays(Len(len), 0..SumSeq(len)) : \A d \in 1..Len(len) : c[d] < len[d]}

\* every in-range coordinate of v maps to an offset inside the allocation
InAllocation(v) ==
  \A c \in InRange(v.len) :
    LET offset == v.data + SumSeq([d \in 1..Len(c) |-> c[d] * v.stride[d]])
    IN 0 <= offset /\ offset <= size(len0) - 1

\* C1: every view reached from as_slice() / as_mut() of the owned array by
\* slice, extract, add_dimension and transpose maps each of its in-range
\* coordinates to an offset in 0 .. size(len0) - 1 of the allocation.
C1_OffsetsInsideAllocation ==
  /\ view # NoView => InAllocation(view)
  /\ (last.ok /\ last.view # NoView) => InAllocation(last.view)

\* a strided, offset view with several elements made by slice after an
\* earlier call
C1_Witness ==
  /\ last.op = "slice" /\ last.ok /\ depth >= 1
  /\ last.view.data > 0
  /\ Cardinality(InRange(last.view.len)) >= 2
  /\ \E d \in 1..Len(last.view.stride) : last.view.stride[d] >= 2

\* the offsets a handle addresses
Cells(hd) ==
  IF hd.kind \in {"ref", "ref_mut"} THEN {hd.ptr}
  ELSE IF hd.kind = "none" THEN {}
  ELSE {hd.view.data + SumSeq([d \in 1..Len(c) |-> c[d] * hd.view.stride[d]]) :
          c \in InRange(hd.view.len)}

\* C2: while a write view is alive, no other live read view, write view or
\* element reference obtained through the API addresses memory overlapping
\* the write view's region.
C2_WriteViewExclusive ==
  \A i, j \in 1..MaxHandles :
    (i # j /\ UsableMut(i) /\ Live(j)) =>
      Cells(handles[i]) \cap Cells(handles[j]) = {}

\* C3: the allocation of size(len) elements is released exactly once over
\* the owned array's lifecycle: it always has exactly one holder or has been
\* released once, it is released with the length it was allocated with, and
\* after the consuming end (drop, into_iter / iter_owned and the iterator's
\* drop) it has been released; when init panics in new_with the unwinding
\* releases it.
C3_ReleasedExactlyOnce ==
  /\ alloc.released <= 1
  /\ alloc.ndbox + alloc.boxed + alloc.released = 1
  /\ alloc.released = 1 => alloc.freed = alloc.cap /\ alloc.cap = size(len0)
  /\ pc \in {"done", "panicked"} <=> alloc.released = 1

\* an array of several elements after its consuming end
C3_Witness ==
  /\ pc = "done" /\ alloc.released = 1 /\ alloc.freed >= 2
  /\ alloc.ndbox = 0 /\ alloc.boxed = 0

\* lexicographic order on coordinates of the same rank
LexLess(a, b) ==
  \E d \in 1..Len(a) :
    /\ a[d] < b[d]
    /\ \A e \in 1..(d - 1) : a[e] = b[e]

\* C4: new_with calls init exactly size(len) times, once per in-range
\* coordinate in row-major order, writes every slot exactly once, and the
\* array then holds init(c) at every coordinate c when read through indexing.
C4_NewWithRowMajor ==
  /\ \A k \in DOMAIN wcount : wcount[k] <= 1
  /\ pc \in {"live", "iter", "done"} =>
       /\ Len(calls) = size(len0)
       /\ {calls[k] : k \in DOMAIN calls} = InRange(len0)
       /\ \A j, k \in DOMAIN calls : j < k => LexLess(calls[j], calls[k])
       /\ \A k \in DOMAIN wcount : wcount[k] = 1
       /\ \A c \in InRange(len0) :
            LET r == index(as_view(len0, FALSE), c)
            IN r.ok /\ mem[r.ptr + 1] = init(c)

\* a constructed array with two rows and two columns
C4_Witness ==
  /\ pc = "live" /\ len0 = <<2, 2>>
  /\ calls = << <<0, 0>>, <<0, 1>>, <<1, 0>>, <<1, 1>> >>

\* c[d] < len[d] on every axis
InBounds(c, len) == \A d \in 1..Len(len) : c[d] < len[d]

\* the offset of coordinate c in view v: base + sum of c[d] * stride[d]
Offset(v, c) == v.data + SumSeq([d \in 1..Len(c) |-> c[d] * v.stride[d]])

RECURSIVE RenderFrom(_, _)
\* the entries of s from position k on, each but the first preceded by ", "
RenderFrom(s, k) ==
  IF k > Len(s) THEN ""
  ELSE (IF k > 1 THEN ", " ELSE "") \o ToString(s[k]) \o RenderFrom(s, k + 1)

\* "{c} out of bounds for {len}" in the debug rendering Index([...]), Len([...])
OutOfBoundsMessage(c, len) ==
  "Index([" \o RenderFrom(c, 1) \o "]) out of bounds for Len(["
  \o RenderFrom(len, 1) \o "])"

\* C5: get(c) is present iff c[d] < len[d] on every axis (also for
\* coordinates as large as the maximum unsigned value) and never fails;
\* index(c) returns the same element when get(c) is present and otherwise
\* fails with "{c} out of bounds for {len}".
C5_GetAndIndexBoundsChecked ==
  /\ last.op = "get" =>
       /\ last.msg = ""
       /\ last.ok <=> InBounds(last.idx, last.pre.len)
       /\ last.ok => last.ptr = Offset(last.pre, last.idx)
  /\ last.op = "index" =>
       IF InBounds(last.idx, last.pre.len)
       THEN last.ok /\ <<last.ptr>> = get(last.pre, last.idx)
       ELSE /\ ~last.ok
            /\ get(last.pre, last.idx) = <<>>
            /\ last.msg = OutOfBoundsMessage(last.idx, last.pre.len)

\* indexing a 2 x 2 view at the largest coordinate on the first axis fails
C5_Witness ==
  /\ last.op = "index" /\ ~last.ok
  /\ last.idx = <<UsizeMax, 0>>
  /\ last.msg = "Index([2147483647, 0]) out of bounds for Len([2, 2])"

\* s with position D (counted from 0) removed
Without(s, D) == SubSeq(s, 1, D) \o SubSeq(s, D + 2, Len(s))

\* c with i inserted at position D (counted from 0)
WithInserted(c, D, i) == SubSeq(c, 1, D) \o <<i>> \o SubSeq(c, D + 1, Len(c))

\* C6: extract::<D>(i) with i < len[D] yields a view of rank N - 1 whose
\* length and stride vectors are the originals with position D removed and
\* whose element at every coordinate c is the original's element at c with i
\* inserted at position D; extracting along two different axes in either
\* order reaches the same element.
C6_ExtractGeometry ==
  /\ (last.op = "extract" /\ last.ok) =>
       /\ Len(last.view.len) = Len(last.pre.len) - 1
       /\ last.view.len = Without(last.pre.len, last.D)
       /\ last.view.stride = Without(last.pre.stride, last.D)
       /\ \A c \in InRange(last.view.len) :
            /\ Offset(last.view, c)
                 = Offset(last.pre, WithInserted(c, last.D, last.n))
            /\ mem[Offset(last.view, c) + 1]
                 = mem[Offset(last.pre, WithInserted(c, last.D, last.n)) + 1]
  /\ (view # NoView /\ Len(view.len) >= 2) =>
       \A D1, D2 \in 0..(Len(view.len) - 1) :
         \A i1 \in 0..(view.len[D1 + 1] - 1), i2 \in 0..(view.len[D2 + 1] - 1) :
           D1 < D2 =>
             LET a == extract(extract(view, D1, i1).view, D2 - 1, i2)
                 b == extract(extract(view, D2, i2).view, D1, i1)
             IN a.ok /\ b.ok /\ a.view = b.view

\* a column taken out of a view with two rows, at a position past the first
C6_Witness ==
  /\ last.op = "extract" /\ last.ok
  /\ last.D = 1 /\ last.n >= 1
  /\ last.view.len = <<2>> /\ last.view.stride = <<2>>

\* C7: extract::<D>(i) with i >= len[D] fails with
\* "index {i} out of bounds for dimension of len {len[D]}" and produces no
\* view; it succeeds for every i < len[D].
C7_ExtractBoundsChecked ==
  last.op = "extract" =>
    IF last.n < last.pre.len[last.D + 1]
    THEN last.ok /\ last.view # NoView /\ last.msg = ""
    ELSE /\ ~last.ok
         /\ last.view = NoView
         /\ last.msg = "index " \o ToString(last.n)
                       \o " out of bounds for dimension of len "
                       \o ToString(last.pre.len[last.D + 1])

\* extracting index 2 of an axis of length 2 fails
C7_Witness ==
  /\ last.op = "extract" /\ ~last.ok
  /\ last.msg = "index 2 out of bounds for dimension of len 2"

\* the start a Bounds resolves to (default 0)
StartOf(b) == IF b.start = <<>> THEN 0 ELSE b.start[1]

\* the end a Bounds resolves to on an axis of length n (default n)
EndOf(b, n) == IF b.end = <<>> THEN n ELSE b.end[1]

\* start <= end <= axis length
RangeOk(b, n) == StartOf(b) <= EndOf(b, n) /\ EndOf(b, n) <= n

\* "range {start..end} out of bounds for dimension of len {length}"
RangeMessage(b, n) ==
  "range " \o ToString(StartOf(b)) \o ".." \o ToString(EndOf(b, n))
  \o " out of bounds for dimension of len " \o ToString(n)

StepMessage == "assertion failed: step != 0"

\* the least element of a non-empty set of axes
First(S) == CHOOSE d \in S : \A e \in S : d <= e

\* the axes of the slice call in last whose range is out of bounds
BadRange == {d \in 1..Len(last.bounds) : ~RangeOk(last.bounds[d], last.pre.len[d])}

\* the axes of the slice call in last whose step is 0
ZeroStep == {d \in 1..Len(last.bounds) : last.bounds[d].step = 0}

\* a divided by b, rounded up
CeilDiv(a, b) == (a + b - 1) \div b

\* C8: for bounds with start <= end <= len[d] and step >= 1 on every axis,
\* slice yields a view whose axis-d length is ceil((end - start) / step),
\* whose axis-d stride is the old stride times step and whose element at c is
\* the original's element at start[d] + c[d] * step[d]; slicing with
\* Bounds::all() on every axis gives the original view.
C8_SliceGeometry ==
  (/\ last.op = "slice"
   /\ \A d \in 1..Len(last.bounds) :
        RangeOk(last.bounds[d], last.pre.len[d]) /\ last.bounds[d].step >= 1) =>
    /\ last.ok
    /\ Len(last.view.len) = Len(last.pre.len)
    /\ \A d \in 1..Len(last.bounds) :
         /\ last.view.len[d]
              = CeilDiv(EndOf(last.bounds[d], last.pre.len[d])
                          - StartOf(last.bounds[d]), last.bounds[d].step)
         /\ last.view.stride[d] = last.pre.stride[d] * last.bounds[d].step
    /\ \A c \in InRange(last.view.len) :
         Offset(last.view, c)
           = Offset(last.pre, [d \in 1..Len(c) |->
                                 StartOf(last.bounds[d])
                                   + c[d] * last.bounds[d].step])
    /\ (\A d \in 1..Len(last.bounds) : last.bounds[d] = BoundsAll) =>
         /\ last.view.data = last.pre.data
         /\ last.view.len = last.pre.len
         /\ last.view.stride = last.pre.stride

\* every second element of an axis of length 3, starting at the first
C8_Witness ==
  /\ last.op = "slice" /\ last.ok
  /\ \E d \in 1..Len(last.bounds) :
       /\ last.bounds[d] = BoundsStep(BoundsAll, 2)
       /\ last.pre.len[d] = 3 /\ last.pre.stride[d] = 1
       /\ last.view.len[d] = 2 /\ last.view.stride[d] = 2

\* C9 as stated: slice fails with the range message whenever, on some axis,
\* the resolved start > end or the resolved end > the axis length; a range
\* with start = end is accepted and yields an axis of length 0.
C9_RangeMessageWhenever ==
  last.op = "slice" =>
    /\ BadRange # {} =>
         /\ ~last.ok
         /\ \E d \in BadRange :
              last.msg = RangeMessage(last.bounds[d], last.pre.len[d])
    /\ last.ok =>
         \A d \in 1..Len(last.bounds) :
           StartOf(last.bounds[d]) = EndOf(last.bounds[d], last.pre.len[d])
             => last.view.len[d] = 0

\* C9, amended: slice fails whenever, on some axis, the resolved start > end
\* or the resolved end > the axis length; the message is the range message
\* of the first such axis unless an earlier axis has a step of 0, and then it
\* is "assertion failed: step != 0"; with no such axis and no step of 0 it
\* returns, and an axis with start = end then has length 0.
C9_RangeCheckedInAxisOrder ==
  last.op = "slice" =>
    /\ BadRange # {} =>
         /\ ~last.ok
         /\ last.view = NoView
         /\ last.msg =
              IF \E d \in ZeroStep : d < First(BadRange)
              THEN StepMessage
              ELSE RangeMessage(last.bounds[First(BadRange)],
                                last.pre.len[First(BadRange)])
    /\ (BadRange = {} /\ ZeroStep = {}) => last.ok
    /\ last.ok =>
         \A d \in 1..Len(last.bounds) :
           StartOf(last.bounds[d]) = EndOf(last.bounds[d], last.pre.len[d])
             => last.view.len[d] = 0

\* a reversed range on the second axis, after a first axis sliced to the
\* empty range at its end
C9_Witness ==
  /\ last.op = "slice" /\ ~last.ok
  /\ Len(last.bounds) = 2
  /\ last.bounds[1] = BoundsFrom(BoundsAll, 2) /\ last.pre.len[1] = 2
  /\ last.msg = "range 1..0 out of bounds for dimension of len 2"

\* C10 as stated: slicing with a step of 0 on any axis fails with
\* "assertion failed: step != 0" and produces no view.
C10_StepMessageWhenever ==
  (last.op = "slice" /\ ZeroStep # {}) =>
    ~last.ok /\ last.view = NoView /\ last.msg = StepMessage

\* C10, amended: slicing with a step of 0 on any axis fails and produces no
\* view; the message is "assertion failed: step != 0" when every axis up to
\* and including the first axis with step 0 has a range within bounds, and
\* otherwise the range message of the first axis whose range is out of bounds.
C10_StepCheckedInAxisOrder ==
  (last.op = "slice" /\ ZeroStep # {}) =>
    /\ ~last.ok
    /\ last.view = NoView
    /\ last.msg =
         IF \A d \in BadRange : d > First(ZeroStep)
         THEN StepMessage
         ELSE RangeMessage(last.bounds[First(BadRange)],
                           last.pre.len[First(BadRange)])

\* a step of 0 on the second axis of a view whose ranges are all in bounds
C10_Witness ==
  /\ last.op = "slice" /\ ~last.ok
  /\ Len(last.bounds) = 2
  /\ last.bounds[1].step = 1 /\ last.bounds[2].step = 0
  /\ BadRange = {}
  /\ last.msg = "assertion failed: step != 0"

\* C11: add_dimension::<D>(n) yields a view of rank N + 1 with length n and
\* stride 0 inserted at position D and the same base; its element at c is
\* the original's element at c with position D removed, so extract::<D>(i) of
\* the result is the original view for every i < n, and n = 0 yields a view
\* with no elements.
C11_AddDimensionBroadcasts ==
  last.op = "add_dimension" =>
    /\ last.ok
    /\ Len(last.view.len) = Len(last.pre.len) + 1
    /\ last.view.len = WithInserted(last.pre.len, last.D, last.n)
    /\ last.view.stride = WithInserted(last.pre.stride, last.D, 0)
    /\ last.view.data = last.pre.data
    /\ \A c \in InRange(last.view.len) :
         Offset(last.view, c) = Offset(last.pre, Without(c, last.D))
    /\ \A i \in 0..(last.n - 1) :
         extract(last.view, last.D, i) = Return(last.pre)
    /\ last.n = 0 => InRange(last.view.len) = {}

\* a vector of two elements broadcast to three rows
C11_Witness ==
  /\ last.op = "add_dimension" /\ last.ok
  /\ last.D = 0 /\ last.n = 3
  /\ last.pre.len = <<2>> /\ last.pre.stride = <<1>>
  /\ last.view.len = <<3, 2>> /\ last.view.stride = <<0, 1>>

\* distinct in-range coordinates of v map to distinct offsets
Injective(v) ==
  \A c1, c2 \in InRange(v.len) : Offset(v, c1) = Offset(v, c2) => c1 = c2

\* C12: in every write view reached from as_mut() by extract_mut, slice_mut
\* and add_dimension_mut, distinct in-range coordinates map to distinct
\* offsets; a store at coordinate c changes the value read at c and at no
\* other coordinate of the view, and iter_mut hands out each cell exactly once.
C12_WriteViewCellsDistinct ==
  /\ view.mut => Injective(view)
  /\ (last.ok /\ last.view.mut) => Injective(last.view)
  /\ pc = "written" =>
       /\ \A c \in InRange(view.len) :
            (mem[Offset(view, c) + 1] = Written) <=> (c = last.idx)
       /\ \A k \in DOMAIN mem :
            k # last.ptr + 1 =>
              \E c \in InRange(len0) :
                /\ mem[k] = init(c)
                /\ Offset(as_view(len0, TRUE), c) = k - 1
  /\ last.op = "iter_mut" =>
       /\ Len(last.items) = Cardinality(InRange(last.pre.len))
       /\ \A k \in DOMAIN last.items :
            /\ last.items[k].value.ok
            /\ last.items[k].at \in InRange(last.pre.len)
            /\ last.items[k].value.ptr = Offset(last.pre, last.items[k].at)
       /\ \A j, k \in DOMAIN last.items :
            last.items[j].value.ptr = last.items[k].value.ptr => j = k
       /\ \A c \in InRange(last.pre.len) :
            \E k \in DOMAIN last.items : last.items[k].at = c

\* a store to the second element of a strided write view reached by two calls
C12_Witness ==
  /\ pc = "written" /\ view.mut /\ depth = 2
  /\ view.len = <<2>> /\ view.stride = <<2>>
  /\ last.idx = <<1>> /\ mem[last.ptr + 1] = Written

\* C13: transpose reverses the length vector and the stride vector and keeps
\* the base, so the original's element at [a, ..., z] is the transposed
\* view's element at [z, ..., a]; transposing twice gives the original view.
C13_TransposeReverses ==
  last.op = "transpose" =>
    LET N == Len(last.pre.len)
    IN /\ last.ok
       /\ Len(last.view.len) = N /\ Len(last.view.stride) = N
       /\ \A d \in 1..N :
            /\ last.view.len[d] = last.pre.len[N + 1 - d]
            /\ last.view.stride[d] = last.pre.stride[N + 1 - d]
       /\ last.view.data = last.pre.data
       /\ \A c \in InRange(last.pre.len) :
            Offset(last.pre, c)
              = Offset(last.view, [d \in 1..N |-> c[N + 1 - d]])
       /\ transpose(last.view) = last.pre

\* a matrix of one row and three columns, transposed
C13_Witness ==
  /\ last.op = "transpose" /\ last.ok
  /\ last.pre.len = <<1, 3>> /\ last.pre.stride = <<3, 1>>
  /\ last.view.len = <<3, 1>> /\ last.view.stride = <<1, 3>>

\* C14: indices() yields exactly size(len) coordinates, each in-range
\* coordinate once, in row-major order, and then ends; nothing when an axis
\* has length 0, one empty coordinate for rank 0, and the same sequence when
\* computed again.
C14_IndicesRowMajor ==
  last.op = "indices" =>
    /\ Len(last.items) = Product(last.pre.len)
    /\ {last.items[k] : k \in DOMAIN last.items} = InRange(last.pre.len)
    /\ \A j, k \in DOMAIN last.items :
         j < k => LexLess(last.items[j], last.items[k])
    /\ (\E d \in DOMAIN last.pre.len : last.pre.len[d] = 0) => last.items = <<>>
    /\ last.pre.len = <<>> => last.items = << <<>> >>
    /\ indices(last.pre) = last.items

\* the indices of a broadcast view of two rows and three columns
C14_Witness ==
  /\ last.op = "indices"
  /\ last.pre.len = <<2, 3>>
  /\ last.items = << <<0, 0>>, <<0, 1>>, <<0, 2>>,
                     <<1, 0>>, <<1, 1>>, <<1, 2>> >>

\* the debug rendering Len([...]) of a length vector
LenText(len) == "Len([" \o RenderFrom(len, 1) \o "])"

\* the element of operand x at coordinate c
ElemAt(x, c) == x.mem[Offset(x.view, c) + 1]

\* the position of coordinate c in the row-major order of length vector len
RowMajorRank(len, c) ==
  1 + SumSeq([d \in 1..Len(c) |->
               c[d] * Product(SubSeq(len, d + 1, Len(len)))])

\* the element at coordinate c of the NDBox an operation returned
ResAt(c) == res.data[RowMajorRank(res.len, c)]

\* zip pairs the operands' items positionally: the pair for coordinate c is
\* made of the receiver's and the argument's item at c
ZipPairsPositional ==
  /\ res.ok
  /\ Len(res.data) = Cardinality(InRange(nd_len(lhs)))
  /\ res.n = Len(res.data)
  /\ \A c \in InRange(nd_len(lhs)) :
       LET pair == res.data[RowMajorRank(nd_len(lhs), c)]
       IN /\ pair[1] = IF lhs.owned THEN ElemAt(lhs, c) ELSE Offset(lhs.view, c)
          /\ pair[2] = IF rhs.owned THEN ElemAt(rhs, c) ELSE Offset(rhs.view, c)

\* C15 as stated: zip on operands whose length vectors differ fails, before
\* any pair is produced, with "Cannot operate on arrays with {len1} and
\* {len2}"; with equal length vectors it never fails and pairs positionally.
C15_ZipMessageArrays ==
  res.op = "zip" =>
    IF nd_len(lhs) # nd_len(rhs)
    THEN /\ ~res.ok
         /\ res.n = 0 /\ res.data = <<>>
         /\ res.msg = "Cannot operate on arrays with " \o LenText(nd_len(lhs))
                      \o " and " \o LenText(nd_len(rhs))
    ELSE ZipPairsPositional

\* C15, amended: zip on operands whose length vectors differ fails, before
\* any pair is produced, with "Cannot operate on NDSlices with {len1} and
\* {len2}", len1 the receiver's and len2 the argument's length vector in
\* debug rendering; with equal length vectors it never fails and pairs
\* positionally.
C15_ZipMessageNDSlices ==
  res.op = "zip" =>
    IF nd_len(lhs) # nd_len(rhs)
    THEN /\ ~res.ok
         /\ res.n = 0 /\ res.data = <<>>
         /\ res.msg = "Cannot operate on NDSlices with " \o LenText(nd_len(lhs))
                      \o " and " \o LenText(nd_len(rhs))
    ELSE ZipPairsPositional

\* zip of a matrix of two rows with a matrix of one row
C15_Witness ==
  /\ res.op = "zip" /\ ~res.ok
  /\ nd_len(lhs) = <<2, 2>> /\ nd_len(rhs) = <<1, 2>>
  /\ res.msg = "Cannot operate on NDSlices with Len([2, 2]) and Len([1, 2])"

\* C16: a binary elementwise operator on operands of equal length vectors,
\* in each of the four ownership combinations, returns a new owned array of
\* that length vector whose element at every coordinate c is
\* op(left[c], right[c]), whatever the operands' strides and base offsets.
C16_BinaryElementwise ==
  (res.op \in {"add", "sub"} /\ nd_len(lhs) = nd_len(rhs)) =>
    /\ res.ok
    /\ res.len = nd_len(lhs)
    /\ Len(res.data) = Cardinality(InRange(nd_len(lhs)))
    /\ \A c \in InRange(nd_len(lhs)) :
         ResAt(c) = IF res.op = "add"
                    THEN ElemAt(lhs, c) + ElemAt(rhs, c)
                    ELSE ElemAt(lhs, c) - ElemAt(rhs, c)

\* the second row of one matrix minus the second column of another
C16_Witness ==
  /\ res.op = "sub" /\ res.ok
  /\ ~lhs.owned /\ ~rhs.owned
  /\ lhs.mem = <<0, 0, 1, 1>> /\ lhs.view.data = 2 /\ lhs.view.stride = <<1>>
  /\ rhs.mem = <<0, 1, 0, 0>> /\ rhs.view.data = 1 /\ rhs.view.stride = <<2>>
  /\ res.len = <<2>> /\ res.data = <<0, 1>>

\* C17: a compound assignment on a write view with a right-hand operand of
\* equal length vector updates every element of the write view in place
\* exactly once with the right-hand element at the same coordinate (and no
\* other slot); with unequal length vectors it fails as zip does and leaves
\* every element unchanged.
C17_CompoundAssignInPlace ==
  res.op \in {"add_assign", "sub_assign"} =>
    IF nd_len(lhs) = nd_len(rhs)
    THEN /\ res.ok
         /\ res.n = Cardinality(InRange(nd_len(lhs)))
         /\ \A c \in InRange(nd_len(lhs)) :
              ElemAt(lhs, c)
                = IF res.op = "add_assign"
                  THEN res.before[Offset(lhs.view, c) + 1] + ElemAt(rhs, c)
                  ELSE res.before[Offset(lhs.view, c) + 1] - ElemAt(rhs, c)
         /\ \A k \in DOMAIN lhs.mem :
              (\A c \in InRange(nd_len(lhs)) : Offset(lhs.view, c) + 1 # k)
                => lhs.mem[k] = res.before[k]
    ELSE /\ ~res.ok
         /\ res.msg = zip([lhs EXCEPT !.mem = res.before], rhs).msg
         /\ ~zip([lhs EXCEPT !.mem = res.before], rhs).ok
         /\ lhs.mem = res.before

\* every second element of a row has an array's elements subtracted
C17_Witness ==
  /\ res.op = "sub_assign" /\ res.ok
  /\ lhs.view.mut /\ lhs.view.len = <<2>> /\ lhs.view.stride = <<2>>
  /\ rhs.owned /\ rhs.mem = <<1, 1>>
  /\ res.before = <<1, 1, 1>> /\ lhs.mem = <<0, 1, 0>>

\* operand x is a square matrix with 1 on the diagonal and 0 elsewhere
IsIdentity(x) ==
  /\ nd_len(x)[1] = nd_len(x)[2]
  /\ \A c \in InRange(nd_len(x)) : ElemAt(x, c) = IF c[1] = c[2] THEN 1 ELSE 0

\* C18: for A of length [r, k] and B of length [k, c], of any strides,
\* matrix_product(A, B) is an owned array of length [r, c] whose cell [i, j]
\* is the sum over m in 0..k of A[i, m] * B[m, j]; so the product with an
\* identity matrix on either side is the other matrix.
C18_MatrixProductCells ==
  (res.op = "matrix_product" /\ nd_len(lhs)[2] = nd_len(rhs)[1]) =>
    LET r == nd_len(lhs)[1]
        k == nd_len(lhs)[2]
        c == nd_len(rhs)[2]
    IN /\ res.ok
       /\ res.len = <<r, c>>
       /\ Len(res.data) = r * c
       /\ \A i \in 0..(r - 1), j \in 0..(c - 1) :
            ResAt(<<i, j>>)
              = SumSeq([m \in 1..k |->
                          ElemAt(lhs, <<i, m - 1>>) * ElemAt(rhs, <<m - 1, j>>)])
       /\ IsIdentity(rhs) =>
            /\ res.len = nd_len(lhs)
            /\ \A p \in InRange(res.len) : ResAt(p) = ElemAt(lhs, p)
       /\ IsIdentity(lhs) =>
            /\ res.len = nd_len(rhs)
            /\ \A p \in InRange(res.len) : ResAt(p) = ElemAt(rhs, p)

\* a transposed row of two elements times a row of two elements
C18_Witness ==
  /\ res.op = "matrix_product" /\ res.ok
  /\ lhs.mem = <<1, 1>> /\ lhs.view.len = <<2, 1>> /\ lhs.view.stride = <<1, 2>>
  /\ rhs.mem = <<0, 1>> /\ rhs.view.len = <<1, 2>>
  /\ res.len = <<2, 2>> /\ res.data = <<0, 1, 0, 1>>

\* C19: matrix_product of A of length [r, k] and B of length [k2, c] with
\* k # k2 fails with "Cannot multiply matrices of {lenA} and {lenB}" before
\* computing any cell, and it fails in no other case.
C19_MatrixProductInnerLengths ==
  res.op = "matrix_product" =>
    IF nd_len(lhs)[2] # nd_len(rhs)[1]
    THEN /\ ~res.ok
         /\ res.n = 0 /\ res.data = <<>>
         /\ res.msg = "Cannot multiply matrices of " \o LenText(nd_len(lhs))
                      \o " and " \o LenText(nd_len(rhs))
    ELSE res.ok

\* a matrix of one column times a matrix of two rows
C19_Witness ==
  /\ res.op = "matrix_product" /\ ~res.ok
  /\ nd_len(lhs) = <<2, 1>> /\ nd_len(rhs) = <<2, 2>>
  /\ res.msg = "Cannot multiply matrices of Len([2, 1]) and Len([2, 2])"

\* C20: two arrays or views of the same rank compare equal iff their length
\* vectors are identical and the elements at every coordinate are equal,
\* whatever their strides and base offsets; with different length vectors
\* the comparison returns unequal without failing and without inspecting
\* elements.
C20_StructuralEquality ==
  res.op = "eq" =>
    /\ res.ok
    /\ res.flag <=>
         /\ nd_len(lhs) = nd_len(rhs)
         /\ \A c \in InRange(nd_len(lhs)) : ElemAt(lhs, c) = ElemAt(rhs, c)
    /\ nd_len(lhs) # nd_len(rhs) => ~res.flag /\ res.n = 0

\* a transposed view equal to an array stored the other way round
C20_Witness ==
  /\ res.op = "eq" /\ res.ok /\ res.flag
  /\ nd_len(lhs) = <<2, 2>>
  /\ lhs.mem = <<0, 1, 0, 1>> /\ lhs.view.stride = <<1, 2>>
  /\ rhs.mem = <<0, 0, 1, 1>> /\ rhs.view.stride = <<2, 1>>

(* ------------- the write view mirrors the read view (C21) ------------- *)

\* what the read-view operation named by the last call yields on the read
\* view with the receiver's base, length and stride
ReadViewOutcome ==
  LET self == View(last.pre.data, last.pre.len, last.pre.stride, FALSE)
  IN CASE last.op = "extract" -> extract(self, last.D, last.n)
       [] last.op = "slice" -> slice(self, last.bounds)
       [] last.op = "add_dimension" -> Return(add_dimension(self, last.D, 1))
       [] OTHER -> Return(NoView)

\* a geometry call on a write view ends as the read-view operation does, and
\* what it returns is a write view with the same base, length and stride
WriteViewMirrors ==
  (last.pre.mut /\ last.op \in {"extract", "slice", "add_dimension"}) =>
    /\ last.ok = ReadViewOutcome.ok
    /\ last.msg = ReadViewOutcome.msg
    /\ last.ok =>
         /\ last.view.mut
         /\ last.view.data = ReadViewOutcome.view.data
         /\ last.view.len = ReadViewOutcome.view.len
         /\ last.view.stride = ReadViewOutcome.view.stride
    /\ last.op = "add_dimension" => last.n = 1

\* a write view on which the program may make its next call
WriteViewReady == Ready /\ view.mut /\ depth < MaxOps

\* C21 as stated: extract, slice, add_dimension (extent 1) and transpose can
\* each be called on a write view, and the result is a write view with the
\* base, length and stride the read-view operation yields.
C21_GeometryOpsAllMirrored ==
  /\ WriteViewMirrors
  /\ WriteViewReady =>
       /\ Len(view.len) > 0 => ENABLED Extract
       /\ ENABLED Slice
       /\ Len(view.len) < MaxRank => ENABLED AddDimension
       /\ ENABLED Transpose

\* C21 amended: extract, slice and add_dimension (extent 1) can each be
\* called on a write view, and the result is a write view with the base,
\* length and stride the read-view operation yields; transpose cannot be
\* called on a write view, and every transposed view is a read view.
C21_GeometryOpsMirroredButTranspose ==
  /\ WriteViewMirrors
  /\ WriteViewReady =>
       /\ Len(view.len) > 0 => ENABLED Extract
       /\ ENABLED Slice
       /\ Len(view.len) < MaxRank => ENABLED AddDimension
       /\ ~ENABLED Transpose
  /\ last.op = "transpose" => (~last.pre.mut /\ ~last.view.mut)

\* extract_mut returned a write view whose base is not the receiver's
C21_Witness ==
  /\ last.op = "extract" /\ last.pre.mut /\ last.ok
  /\ last.view.mut
  /\ last.view.data # last.pre.data
  /\ Len(last.view.len) = 1

(* ---------------- location stays in the allocation (C22) --------------- *)

\* the index the last call passed to location on its receiver: the start
\* coordinates for slice, zeros with dimension_index on axis D for extract,
\* the index itself for get and index
LocationIndex ==
  CASE last.op = "slice" ->
         [d \in 1..Len(last.pre.len) |-> StartOf(last.bounds[d])]
    [] last.op = "extract" ->
         [Zeros(Len(last.pre.len)) EXCEPT ![last.D + 1] = last.n]
    [] OTHER -> last.idx

\* the last call reached its call of location
LocationCalled ==
  /\ last.op \in {"slice", "extract", "get", "index", "index_mut"}
  /\ last.ok

\* C22: whenever a call on a view derived from the owned array computes
\* location(index) with index[d] <= len[d] on every axis, the pointer is at
\* most size(len0) elements past the start of the allocation (and not
\* before it); in particular the base pointer slice computes from its start
\* coordinates is within or one past the end of the allocation.
C22_LocationWithinAllocation ==
  (/\ LocationCalled
   /\ \A d \in 1..Len(last.pre.len) : LocationIndex[d] <= last.pre.len[d]) =>
    /\ 0 <= location(last.pre, LocationIndex)
    /\ location(last.pre, LocationIndex) <= alloc.cap
    /\ last.op = "slice" => last.view.data = location(last.pre, LocationIndex)

(* ------------------ the enumerator never ends (C23) ------------------ *)

\* the coordinate after c in the walk over len: the last axis that can still
\* grow is incremented and every axis after it starts over; all-zeros when
\* no axis can grow
Successor(len, c) ==
  LET grow == {d \in 1..Len(len) : c[d] + 1 < len[d]}
  IN IF grow = {} THEN Zeros(Len(len))
     ELSE LET g == CHOOSE d \in grow : \A e \in grow : e <= d
          IN [d \in 1..Len(len) |->
                IF d < g THEN c[d] ELSE IF d = g THEN c[d] + 1 ELSE 0]

\* C23: on a length vector whose axes are all >= 1 the enumerator never
\* returns None; its first item is all-zeros, each further item is the
\* successor of the one before (last axis incremented, carrying leftward),
\* its first size(len) items are exactly the in-range coordinates in
\* row-major order, and after every size(len) items it is back at all-zeros
\* and repeats.
C23_EnumeratorCycles ==
  (\A d \in 1..Len(len0) : len0[d] >= 1) =>
    LET S == size(len0)
        n == Len(calls)
    IN /\ pc # "enum_end"
       /\ pc = "enum" =>
            /\ n >= 1 => calls[1] = Zeros(Len(len0))
            /\ \A k \in 1..(n - 1) : calls[k + 1] = Successor(len0, calls[k])
            /\ \A k \in 1..n :
                 /\ InBounds(calls[k], len0)
                 /\ k <= S => RowMajorRank(len0, calls[k]) = k
                 /\ k > S => calls[k] = calls[k - S]
            /\ n >= S =>
                 {calls[k] : k \in 1..S} =
                   {c \in Arrays(Len(len0), 0..MaxDim) : InBounds(c, len0)}
            /\ n % S = 0 => iter = Zeros(Len(len0))
            /\ iter = Zeros(Len(len0)) => n % S = 0

\* two full walks over two rows and two columns, and the start of a third
C23_Witness ==
  /\ pc = "enum" /\ len0 = <<2, 2>>
  /\ calls = << <<0, 0>>, <<0, 1>>, <<1, 0>>, <<1, 1>>,
                <<0, 0>>, <<0, 1>>, <<1, 0>>, <<1, 1>>, <<0, 0>> >>

(* ---------------- init panics inside new_with (C24) ---------------- *)

\* C24: when init panics at the k-th coordinate in row-major order (k from
\* 0), no NDBox exists and nothing further happens, init has been called for
\* the coordinates 0..k in row-major order and for no later one, the k
\* elements written before are in their slots, and no element has had its
\* destructor run.
C24_InitPanicLeaksWritten ==
  pc = "panicked" =>
    LET k == slot
    IN /\ alloc.ndbox = 0 /\ view = NoView /\ last = NoCall
       /\ ~ENABLED Next
       /\ k < size(len0)
       /\ Len(calls) = k + 1
       /\ \A j \in 1..(k + 1) :
            InBounds(calls[j], len0) /\ RowMajorRank(len0, calls[j]) = j
       /\ \A j \in 1..k : mem[j] = init(calls[j]) /\ wcount[j] = 1
       /\ \A j \in (k + 1)..size(len0) : mem[j] = Uninit /\ wcount[j] = 0
       /\ alloc.dropped = {}

\* init panicked at coordinate [1, 0] of two rows and two columns, after two
\* elements were written
C24_Witness ==
  /\ pc = "panicked" /\ len0 = <<2, 2>>
  /\ slot = 2
  /\ calls = << <<0, 0>>, <<0, 1>>, <<1, 0>> >>
  /\ mem[1] # Uninit /\ mem[2] # Uninit

(* ------------- nothing is delivered for empty arrays (C25) ------------- *)

\* some axis of the length vector has length 0
EmptyAxis(len) == \E d \in 1..Len(len) : len[d] = 0

\* C25: for a length vector with an axis of length 0, the IndexIterator's
\* first item is the all-zeros coordinate, which is out of range, and yet
\* new_with (hence new_fill, new_default and matrix_product, which call it)
\* never calls init, so it cannot panic there and the array is made with no
\* element, and indices(), iter(), iter_mut() and iter_owned() yield nothing.
C25_EmptyArraysDeliverNothing ==
  /\ EmptyAxis(len0) =>
       /\ IndexIteratorNext(len0, Zeros(Len(len0))).some
       /\ IndexIteratorNext(len0, Zeros(Len(len0))).item = Zeros(Len(len0))
       /\ ~InBounds(Zeros(Len(len0)), len0)
       /\ calls = <<>> /\ slot = 0 /\ mem = <<>>
       /\ pc # "panicked"
       /\ pc = "new_with" => (iter = Zeros(Len(len0)) /\ ~ENABLED NewWithPanic)
       /\ pc \in {"live", "iter", "done"} =>
            iter = IndexIteratorNext(len0, Zeros(Len(len0))).index
       /\ last.op = "iter_owned" => last.items = <<>>
  /\ (last.op \in {"indices", "iter", "iter_mut"} /\ EmptyAxis(last.pre.len)) =>
       last.items = <<>>
  /\ (res.op = "matrix_product" /\ res.ok /\ EmptyAxis(res.len)) =>
       (res.n = 0 /\ res.data = <<>>)

\* an array of two rows and no column: new_with asked the IndexIterator
\* once, which moved on to [1, 0], and called init for nothing; iter() on
\* its view yields nothing
C25_Witness ==
  /\ pc = "live" /\ len0 = <<2, 0>>
  /\ iter = <<1, 0>> /\ calls = <<>>
  /\ last.op = "iter" /\ last.pre.len = <<2, 0>> /\ last.items = <<>>

=============================================================================
